---- MODULE Spec2Model ----
(***************************************************************************)
(* Model of the dotfiles engine of the h CLI (src/src/commands/dots.ts).   *)
(*                                                                         *)
(* Strings are modelled as sequences of tokens, a path as a sequence of    *)
(* segments (the parts between "/").  The tokens "dot_", "private_",       *)
(* "executable_" and "." are the only ones the code tests as prefixes; the *)
(* other tokens are plain names that neither start with nor combine into   *)
(* one of them, so `s.startsWith("dot_")` is `s[1] = "dot_"`.              *)
(***************************************************************************)
EXTENDS Integers, Sequences, FiniteSets, TLC

VARIABLES
    codec,        \* the codec specification's input and results
    src,          \* source tree: source-relative path -> file
    tgt,          \* target tree (home): target-relative path -> file
    srcDirExists, \* existsSync(sourceDir)
    srcGitDir,    \* existsSync(join(sourceDir, ".git"))
    cfg,          \* the dots section of the configuration
    now,          \* the clock, in hours
    pc,           \* position of the running command ("idle": none)
    run,          \* the running command's local variables
    obs,          \* what the last command did (prompts, writes, output)
    src0,         \* source tree when the last command started
    tgt0,         \* target tree when the last command started
    ncmds,        \* commands started so far
    boot,         \* the configuration file and one start of the CLI
    rel,          \* the release command's process
    add,          \* one `dots add <path>` on absolute paths
    ign,          \* one call of shouldIgnore
    cls           \* one (source, target) pair and its classifications


\* ------------------------------------------------------------------------
\* Bounds
\* ------------------------------------------------------------------------
\* longest path (in segments) the codec specification draws
MaxDepth == 2

\* commands run in one behaviour
MaxCmds == 1

\* ------------------------------------------------------------------------
\* String helpers (String.prototype.startsWith / slice, path.basename)
\* ------------------------------------------------------------------------
startsWith(s, tok) == Len(s) > 0 /\ s[1] = tok

Front(s) == SubSeq(s, 1, Len(s) - 1)

basename(path) == path[Len(path)]

\* ------------------------------------------------------------------------
\* PathCodec
\* ------------------------------------------------------------------------
\* "private_" + filename, then "executable_" + filename (dots.ts:182-187)
prefixFilename(filename, isPrivate, isExecutable) ==
    LET f1 == IF isPrivate THEN <<"private_">> \o filename ELSE filename
    IN  IF isExecutable THEN <<"executable_">> \o f1 ELSE f1

toSourceName(targetPath, isPrivate, isExecutable) ==
    LET convertedParts == [i \in 1..Len(targetPath) |->
                              IF startsWith(targetPath[i], ".")
                              THEN <<"dot_">> \o Tail(targetPath[i])
                              ELSE targetPath[i]]
    IN  IF isPrivate \/ isExecutable
        THEN Front(convertedParts)
               \o <<prefixFilename(basename(convertedParts), isPrivate, isExecutable)>>
        ELSE convertedParts

\* one segment of toTargetName: strip ^private_, then ^executable_, then dot_ -> .
toTargetPart(part) ==
    LET p1 == IF startsWith(part, "private_") THEN Tail(part) ELSE part
        p2 == IF startsWith(p1, "executable_") THEN Tail(p1) ELSE p1
    IN  IF startsWith(p2, "dot_") THEN <<".">> \o Tail(p2) ELSE p2

toTargetName(sourcePath) ==
    [i \in 1..Len(sourcePath) |-> toTargetPart(sourcePath[i])]

\* variant: only the file name is tested for the private_ prefix
isPrivateSource_basenameOnly(sourcePath) ==
    startsWith(basename(sourcePath), "private_")

isPrivateSource(sourcePath) ==
    \/ startsWith(basename(sourcePath), "private_")
    \/ \E i \in 1..Len(sourcePath) : startsWith(sourcePath[i], "private_")

isExecutableSource(sourcePath) == startsWith(basename(sourcePath), "executable_")

\* 0o600 = 384, 0o755 = 493, 0o644 = 420
getFileMode(sourceName) ==
    IF isPrivateSource(sourceName) THEN 384
    ELSE IF isExecutableSource(sourceName) THEN 493
    ELSE 420


fsvars == <<src, tgt, srcDirExists, srcGitDir, cfg, now, pc, run, obs, src0, tgt0, ncmds,
           boot, rel, add, ign, cls>>

vars == <<codec, src, tgt, srcDirExists, srcGitDir, cfg, now, pc, run, obs, src0, tgt0, ncmds,
         boot, rel, add, ign, cls>>

\* ------------------------------------------------------------------------
\* Files and trees
\* ------------------------------------------------------------------------
NoFile == [c |-> "none", m |-> 0]

exists(tree, path) == tree[path] # NoFile

DotGit == <<".", "git">>

\* directory-listing order of the source tree (readdirSync, depth first)
SrcOrder ==
    << <<DotGit, <<"config">>>>,
       <<<<"dot_", "config">>, <<"tool.conf">>>>,
       <<<<"dot_", "zshrc">>>>,
       <<<<"executable_", "dot_", "zshrc">>>>,
       <<<<"executable_", "private_", "dot_", "zshrc">>>>,
       <<<<"private_", "dot_", "ssh">>, <<"config">>>>,
       <<<<"private_", "dot_", "zshrc">>>>,
       <<<<"sub">>, DotGit, <<"HEAD">>>> >>

SPaths == { SrcOrder[i] : i \in 1..Len(SrcOrder) }

\* home files `dots add` is called on, and arguments of `dots rm`
AddPaths == { <<<<".", "zshrc">>>> }

RmArgs == { <<<<".", "zshrc">>>>, <<<<".", "ssh">>, <<"config">>>>,
            <<DotGit, <<"config">>>> }

TPaths == { toTargetName(s) : s \in SPaths } \cup AddPaths \cup RmArgs

Contents == {"A", "B"}

\* listFilesRecursively(sourceDir): the files present, in listing order
listFilesRecursively(tree) == SelectSeq(SrcOrder, LAMBDA p : exists(tree, p))

\* variant: only the entry named ".git" itself is filtered
isGitPath_exact(sourceFile) == sourceFile = <<DotGit>>

\* the filter every scan loop starts with:
\* sourceFile.startsWith(".git/") || sourceFile === ".git"
isGitPath(sourceFile) == sourceFile[1] = DotGit

\* filesAreDifferent(file1, file2) on the files s and t
filesDiffer(s, t) == s = NoFile \/ t = NoFile \/ s.c # t.c

filesAreDifferent(sourceFile, targetName) ==
    filesDiffer(src[sourceFile], tgt[targetName])

\* unlinkSync(path)
unlink(tree, path) == [tree EXCEPT ![path] = NoFile]

\* copyFile(src, dest) followed by chmodSync(dest, mode)
copyFile(tree, dest, content, mode) == [tree EXCEPT ![dest] = [c |-> content, m |-> mode]]

\* ------------------------------------------------------------------------
\* Command bookkeeping
\* ------------------------------------------------------------------------
NoRun == [files |-> <<>>, sel |-> {}, i |-> 0, applied |-> 0, skipped |-> 0,
          updated |-> {}, removed |-> {}]

NoObs == [cmd |-> "none", out |-> "none", prompts |-> {}, menus |-> {},
          seen |-> {}, writes |-> {}, deselected |-> {}, chose |-> {},
          declined |-> {}, kept |-> {}, copied |-> {}, gitHelper |-> FALSE,
          git |-> "none", exits |-> <<>>, last |-> <<>>, counts |-> <<>>,
          modified |-> {}, missing |-> {}, synced |-> {},
          rewritten |-> {}, failed |-> {}, pending |-> {},
          escaped |-> "none", exit |-> 0, answer |-> "none"]

\* DEFAULT_CONFIG.dots.checkInterval, in hours
DefaultCheckInterval == 24

\* dots.lastChecked when the key is absent
Unset == -1

Begin(cmd) ==
    /\ pc = "idle"
    /\ ncmds < MaxCmds
    /\ ncmds' = ncmds + 1
    /\ src0' = src
    /\ tgt0' = tgt

\* the outcomes of the three git processes gitCommitAndPush starts: Bun.spawn
\* throws, or git commit and git push run and exit with a code each.  With
\* autoPush off the helper returns at its first line, whatever git would do.
GitRuns ==
    IF cfg.autoPush
    THEN [spawned : {TRUE}, commit : 0..1, push : 0..1]
           \cup {[spawned |-> FALSE, commit |-> 0, push |-> 0]}
    ELSE {[spawned |-> TRUE, commit |-> 0, push |-> 0]}

\* variant: the helper without its check for sourceDir/.git
gitCommitAndPush_noRepoCheck(git) ==
    IF ~cfg.autoPush THEN "none"
    ELSE IF ~git.spawned THEN "warn_failed"
    ELSE IF git.push = 0 THEN "success_pushed" ELSE "warn_push"

\* gitCommitAndPush: the message it prints ("none": it returned before
\* running git).  The commit message is never empty where the commands
\* call it: add and rm pass one file, sync calls it only with an update or
\* a removal.  The exit code of git commit is awaited and not read.
gitCommitAndPush(git) ==
    IF ~cfg.autoPush THEN "none"
    ELSE IF ~srcGitDir THEN "warn_not_repo"
    ELSE IF ~git.spawned THEN "warn_failed"
    ELSE IF git.push = 0 THEN "success_pushed" ELSE "warn_push"

\* the messages printed after the git commands were started
GitStarted == {"success_pushed", "warn_push", "warn_failed"}

\* the exit codes of git commit and git push, when both ran
gitExits(msg, git) ==
    IF msg \in {"success_pushed", "warn_push"} THEN <<git.commit, git.push>> ELSE <<>>

\* index.ts:51-58, the process's uncaughtException listener: exit code 0
\* for an error named ExitPromptError, 1 for any other
uncaughtException(name) == IF name = "ExitPromptError" THEN 0 ELSE 1

\* An error thrown inside a dots command.  dots.ts imports confirm, checkbox
\* and select from @inquirer/prompts and wraps neither them nor its file
\* operations in try/catch, the commander action only awaits the command,
\* and index.ts calls program.parse() without awaiting the action: the
\* error leaves the command as a rejected promise nobody handles.  routed
\* is the runtime's part: TRUE when it hands an unhandled rejection to the
\* uncaughtException listener, FALSE when it prints the error and exits
\* with code 1.
escapes(o, name, routed) ==
    [o EXCEPT !.out = IF name = "ExitPromptError" THEN "cancelled_prompt" ELSE "crashed",
              !.escaped = name,
              !.exit = IF routed THEN uncaughtException(name) ELSE 1]

\* the error ends the running command: the rest of its loop never runs
aborts(o, name, routed) ==
    /\ obs' = escapes(o, name, routed)
    /\ run' = NoRun
    /\ pc' = "idle"

\* ------------------------------------------------------------------------
\* Initial states: a source repository holding some of the tracked files,
\* and a home directory in which each of them is absent, equal or edited
\* ------------------------------------------------------------------------
ToolConf == <<<<"dot_", "config">>, <<"tool.conf">>>>

SshConfig == <<<<"private_", "dot_", "ssh">>, <<"config">>>>

DotZshrc == <<<<"dot_", "zshrc">>>>

NestedGitHead == <<<<"sub">>, DotGit, <<"HEAD">>>>

GitConfig == <<DotGit, <<"config">>>>

PrivateDotZshrc == <<<<"private_", "dot_", "zshrc">>>>

\* the sets of files a repository starts with; the last is a repository
\* after `dots add ~/.zshrc` was answered once with private = no and once
\* with private = yes
InitTracked ==
    { {}, {ToolConf, SshConfig}, {ToolConf, DotZshrc},
      {DotZshrc, SshConfig, NestedGitHead}, {DotZshrc, PrivateDotZshrc} }

InitSrc(tracked, git) ==
    [p \in SPaths |->
        IF p \in tracked \/ (git /\ p = GitConfig)
        THEN [c |-> "A", m |-> getFileMode(p)]
        ELSE NoFile]

\* home: .zshrc equal to or edited after the repository's copy; .ssh/config
\* and .config/tool.conf both absent, or the first edited and the second equal
InitHome ==
    { [p \in TPaths |->
         IF p = toTargetName(DotZshrc) THEN [c |-> z, m |-> 420]
         ELSE IF p = toTargetName(SshConfig) /\ rest THEN [c |-> "B", m |-> 420]
         ELSE IF p = toTargetName(ToolConf) /\ rest THEN [c |-> "A", m |-> 420]
         ELSE NoFile] : z \in Contents, rest \in BOOLEAN }

Init ==
    /\ codec = [stage |-> "off"]
    /\ boot = [stage |-> "off"]
    /\ rel = [pc |-> "off"]
    /\ add = [stage |-> "off"]
    /\ ign = [stage |-> "off"]
    /\ cls = [stage |-> "off"]
    /\ srcDirExists \in BOOLEAN
    /\ srcGitDir \in BOOLEAN
    /\ srcGitDir => srcDirExists
    /\ \E tracked \in InitTracked :
          /\ ~srcDirExists => tracked = {}
          /\ src = InitSrc(tracked, srcGitDir)
    /\ tgt \in InitHome
    /\ cfg \in [autoPush : BOOLEAN, checkInterval : {DefaultCheckInterval}, lastChecked : {Unset}]
    /\ now = 0
    /\ pc = "idle"
    /\ run = NoRun
    /\ obs = NoObs
    /\ src0 = src
    /\ tgt0 = tgt
    /\ ncmds = 0

\* ------------------------------------------------------------------------
\* dots add <file>
\* ------------------------------------------------------------------------
dotsAdd ==
    \E h \in AddPaths :
        /\ Begin("add")
        /\ UNCHANGED <<codec, boot, rel, add, ign, cls, tgt, srcGitDir, cfg, now, pc, run>>
        /\ IF ~exists(tgt, h)
           THEN \* "Path does not exist"
                /\ obs' = [NoObs EXCEPT !.cmd = "add", !.out = "error"]
                /\ UNCHANGED <<src, srcDirExists>>
           ELSE \/ \* one of the two confirm prompts is aborted
                   \E routed \in BOOLEAN :
                     /\ obs' = escapes([NoObs EXCEPT !.cmd = "add",
                                          !.prompts = {"private", "executable"}],
                                       "ExitPromptError", routed)
                     /\ UNCHANGED <<src, srcDirExists>>
                \/ \E isPrivate \in BOOLEAN, isExecutable \in BOOLEAN, git \in GitRuns :
                     LET sourceName == toSourceName(h, isPrivate, isExecutable)
                     IN  /\ srcDirExists' = TRUE
                         /\ src' = copyFile(src, sourceName, tgt[h].c,
                                            getFileMode(sourceName))
                         /\ obs' = [NoObs EXCEPT
                                      !.cmd = "add", !.out = "added",
                                      !.prompts = {"private", "executable"},
                                      !.writes = {<<"src", sourceName>>},
                                      !.last = <<h, isPrivate, isExecutable, sourceName>>,
                                      !.gitHelper = TRUE,
                                      !.git = gitCommitAndPush(git),
                                      !.exits = gitExits(gitCommitAndPush(git), git)]

\* ------------------------------------------------------------------------
\* dots apply
\* ------------------------------------------------------------------------
\* the scan loop of dotsApply: the entries of filesToApply
applyEntry(sourceFile) ==
    [sourceFile |-> sourceFile,
     targetName |-> toTargetName(sourceFile),
     isNew |-> ~exists(tgt, toTargetName(sourceFile))]

\* variant: the scan loop without its .git filter
scanFilter_none(sourceFile) == TRUE

scanFilter(sourceFile) == ~isGitPath(sourceFile)

scanned == SelectSeq(listFilesRecursively(src), scanFilter)

filesToApply ==
    LET drifted == SelectSeq(scanned,
                     LAMBDA f : filesAreDifferent(f, toTargetName(f)))
    IN  [k \in 1..Len(drifted) |-> applyEntry(drifted[k])]

SeqRange(s) == { s[k] : k \in 1..Len(s) }

dotsApply_scan ==
    /\ Begin("apply")
    /\ UNCHANGED <<codec, boot, rel, add, ign, cls, src, tgt, srcDirExists, srcGitDir, cfg, now>>
    /\ IF ~srcDirExists
       THEN /\ obs' = [NoObs EXCEPT !.cmd = "apply", !.out = "error"]
            /\ UNCHANGED <<pc, run>>
       ELSE IF Len(filesToApply) = 0
       THEN /\ obs' = [NoObs EXCEPT !.cmd = "apply", !.out = "in_sync",
                         !.seen = SeqRange(scanned)]
            /\ UNCHANGED <<pc, run>>
       ELSE /\ obs' = [NoObs EXCEPT !.cmd = "apply", !.out = "running",
                         !.seen = SeqRange(scanned)]
            /\ run' = [NoRun EXCEPT !.files = filesToApply]
            /\ pc' = "apply_select"

\* the checkbox: the user leaves checked the entries at the indices in
\* `checked`; the prompt returns the values (target names) of those entries
dotsApply_select ==
    /\ pc = "apply_select"
    /\ UNCHANGED <<codec, boot, rel, add, ign, cls, src, tgt, srcDirExists, srcGitDir, cfg, now, src0, tgt0, ncmds>>
    /\ \/ \E checked \in SUBSET (1..Len(run.files)) :
            LET selectedFiles == { run.files[k].targetName : k \in checked }
                unchecked == { run.files[k].sourceFile :
                                 k \in (1..Len(run.files)) \ checked }
            IN  /\ obs' = [obs EXCEPT !.prompts = @ \cup {"checkbox"},
                             !.deselected = unchecked,
                             !.out = IF checked = {} THEN "none_selected" ELSE @]
                /\ IF checked = {}
                   THEN /\ pc' = "idle"
                        /\ run' = NoRun
                   ELSE /\ pc' = "apply_loop"
                        /\ run' = [run EXCEPT !.sel = selectedFiles, !.i = 1,
                                     !.skipped = Len(run.files) - Cardinality(checked)]
       \/ \* the checkbox is aborted
          \E routed \in BOOLEAN :
            aborts([obs EXCEPT !.prompts = @ \cup {"checkbox"}],
                   "ExitPromptError", routed)

\* variant: the copy keeps the mode the target had
applyCopy_keepMode(file, menu) ==
    /\ tgt' = [tgt EXCEPT ![file.targetName].c = src[file.sourceFile].c]
    /\ obs' = [obs EXCEPT
                 !.writes = @ \cup {<<"tgt", file.targetName>>},
                 !.last = <<file.sourceFile, file.targetName, file.isNew>>,
                 !.copied = @ \cup {file.sourceFile},
                 !.prompts = IF menu THEN @ \cup {"menu"} ELSE @,
                 !.menus = IF menu THEN @ \cup {file.sourceFile} ELSE @,
                 !.chose = IF menu THEN @ \cup {file.sourceFile} ELSE @,
                 !.answer = IF menu THEN "apply" ELSE @]
    /\ run' = [run EXCEPT !.i = @ + 1, !.applied = @ + 1]
    /\ UNCHANGED pc

\* dots.ts:641-655: copy the source file over the target and set its mode.
\* menu is TRUE when the copy follows the answer "apply" to the file's menu.
applyCopy(file, menu) ==
    /\ tgt' = copyFile(tgt, file.targetName, src[file.sourceFile].c,
                       getFileMode(file.sourceFile))
    /\ obs' = [obs EXCEPT
                 !.rewritten = IF <<"tgt", file.targetName>> \in obs.writes
                               THEN @ \cup {file.targetName} ELSE @,
                 !.writes = @ \cup {<<"tgt", file.targetName>>},
                 !.last = <<file.sourceFile, file.targetName, file.isNew>>,
                 !.copied = @ \cup {file.sourceFile},
                 !.prompts = IF menu THEN @ \cup {"menu"} ELSE @,
                 !.menus = IF menu THEN @ \cup {file.sourceFile} ELSE @,
                 !.chose = IF menu THEN @ \cup {file.sourceFile} ELSE @,
                 !.answer = IF menu THEN "apply" ELSE @]
    /\ run' = [run EXCEPT !.i = @ + 1, !.applied = @ + 1]
    /\ UNCHANGED pc

\* the selected entries of filesToApply after the current one
applyPending ==
    { run.files[k].sourceFile :
        k \in { j \in (run.i + 1)..Len(run.files) : run.files[j].targetName \in run.sel } }

\* copyFile (or mkdirSync, chmodSync) throws for the current entry: the
\* target is not written and the error leaves dotsApply
applyThrows(file, menu, routed) ==
    /\ UNCHANGED tgt
    /\ aborts([obs EXCEPT
                  !.failed = {file.sourceFile},
                  !.pending = applyPending,
                  !.prompts = IF menu THEN @ \cup {"menu"} ELSE @,
                  !.menus = IF menu THEN @ \cup {file.sourceFile} ELSE @,
                  !.chose = IF menu THEN @ \cup {file.sourceFile} ELSE @],
              "Error", routed)

\* one iteration of the loop over filesToApply, or one answer to the
\* resolution menu of a modified file
dotsApply_step ==
    /\ pc = "apply_loop"
    /\ run.i <= Len(run.files)
    /\ UNCHANGED <<codec, boot, rel, add, ign, cls, src, srcDirExists, srcGitDir, cfg, now, src0, tgt0, ncmds>>
    /\ LET file == run.files[run.i]
       IN  IF file.targetName \notin run.sel
           THEN /\ run' = [run EXCEPT !.i = @ + 1]
                /\ UNCHANGED <<tgt, obs, pc>>
           ELSE IF file.isNew
           THEN \/ applyCopy(file, FALSE)
                \/ \E routed \in BOOLEAN : applyThrows(file, FALSE, routed)
           ELSE \E action \in {"inline", "difftool", "apply", "skip", "cancel"} :
                  CASE action \in {"inline", "difftool"} ->
                         /\ obs' = [obs EXCEPT !.prompts = @ \cup {"menu"},
                                      !.menus = @ \cup {file.sourceFile},
                                      !.answer = action]
                         /\ UNCHANGED <<tgt, run, pc>>
                    [] action = "apply" ->
                         \/ applyCopy(file, TRUE)
                         \/ \E routed \in BOOLEAN : applyThrows(file, TRUE, routed)
                    [] action = "skip" ->
                         /\ obs' = [obs EXCEPT !.prompts = @ \cup {"menu"},
                                      !.menus = @ \cup {file.sourceFile},
                                      !.declined = @ \cup {file.sourceFile},
                                      !.answer = action]
                         /\ run' = [run EXCEPT !.i = @ + 1, !.skipped = @ + 1]
                         /\ UNCHANGED <<tgt, pc>>
                    [] action = "cancel" ->
                         /\ UNCHANGED tgt
                         /\ \E routed \in BOOLEAN :
                              aborts([obs EXCEPT !.prompts = @ \cup {"menu"},
                                        !.menus = @ \cup {file.sourceFile},
                                        !.pending = applyPending \cup {file.sourceFile}],
                                     "ExitPromptError", routed)

dotsApply_finish ==
    /\ pc = "apply_loop"
    /\ run.i > Len(run.files)
    /\ UNCHANGED <<codec, boot, rel, add, ign, cls, src, tgt, srcDirExists, srcGitDir, cfg, now, src0, tgt0, ncmds>>
    /\ obs' = [obs EXCEPT !.out = "applied",
                 !.counts = <<run.applied, run.skipped, Len(run.files)>>]
    /\ run' = NoRun
    /\ pc' = "idle"

\* ------------------------------------------------------------------------
\* dots sync
\* ------------------------------------------------------------------------
dotsSync_start ==
    /\ Begin("sync")
    /\ UNCHANGED <<codec, boot, rel, add, ign, cls, src, tgt, srcDirExists, srcGitDir, cfg, now>>
    /\ IF ~srcDirExists
       THEN /\ obs' = [NoObs EXCEPT !.cmd = "sync", !.out = "error"]
            /\ UNCHANGED <<pc, run>>
       ELSE /\ obs' = [NoObs EXCEPT !.cmd = "sync", !.out = "running"]
            /\ run' = [NoRun EXCEPT !.files = listFilesRecursively(src), !.i = 1]
            /\ pc' = "sync_loop"

\* variant: the source file is deleted whatever the answer
syncMissing_always(sourceFile, targetName, shouldDelete) ==
    /\ UNCHANGED tgt
    /\ src' = unlink(src, sourceFile)
    /\ obs' = [obs EXCEPT !.prompts = @ \cup {"confirm"},
                 !.seen = @ \cup {sourceFile},
                 !.writes = @ \cup {<<"src", sourceFile>>},
                 !.declined = IF shouldDelete THEN @ ELSE @ \cup {sourceFile},
                 !.kept = IF shouldDelete THEN @ ELSE @ \cup {sourceFile}]
    /\ run' = [run EXCEPT !.i = @ + 1, !.removed = @ \cup {targetName}]

\* dots.ts:692-711: the target copy is gone; confirm the repo-side deletion
syncMissing(sourceFile, targetName, shouldDelete) ==
    /\ UNCHANGED tgt
    /\ IF shouldDelete
       THEN /\ src' = unlink(src, sourceFile)
            /\ obs' = [obs EXCEPT !.prompts = @ \cup {"confirm"},
                         !.seen = @ \cup {sourceFile},
                         !.writes = @ \cup {<<"src", sourceFile>>}]
            /\ run' = [run EXCEPT !.i = @ + 1, !.removed = @ \cup {targetName}]
       ELSE /\ UNCHANGED src
            /\ obs' = [obs EXCEPT !.prompts = @ \cup {"confirm"},
                         !.seen = @ \cup {sourceFile},
                         !.declined = @ \cup {sourceFile},
                         !.kept = @ \cup {sourceFile}]
            /\ run' = [run EXCEPT !.i = @ + 1]

\* dots.ts:716-767: one answer to the resolution menu of a modified file
syncMenu(sourceFile, targetName, action) ==
    LET shown == [obs EXCEPT !.prompts = @ \cup {"menu"},
                    !.seen = @ \cup {sourceFile},
                    !.menus = @ \cup {sourceFile},
                    !.answer = action]
    IN  CASE action \in {"inline", "difftool"} ->
               /\ obs' = shown
               /\ UNCHANGED <<src, tgt, run>>
          [] action = "to-repo" ->
               /\ src' = [src EXCEPT ![sourceFile].c = tgt[targetName].c]
               /\ obs' = [shown EXCEPT !.chose = @ \cup {sourceFile},
                            !.writes = @ \cup {<<"src", sourceFile>>}]
               /\ run' = [run EXCEPT !.i = @ + 1, !.applied = @ + 1,
                            !.updated = @ \cup {targetName}]
               /\ UNCHANGED tgt
          [] action = "to-home" ->
               /\ tgt' = copyFile(tgt, targetName, src[sourceFile].c,
                                  getFileMode(sourceFile))
               /\ obs' = [shown EXCEPT !.chose = @ \cup {sourceFile},
                            !.copied = @ \cup {sourceFile},
                            !.writes = @ \cup {<<"tgt", targetName>>}]
               /\ run' = [run EXCEPT !.i = @ + 1, !.applied = @ + 1]
               /\ UNCHANGED src
          [] action = "skip" ->
               /\ obs' = [shown EXCEPT !.declined = @ \cup {sourceFile}]
               /\ run' = [run EXCEPT !.i = @ + 1]
               /\ UNCHANGED <<src, tgt>>

\* the files after the current one that the loop would prompt about
syncPending ==
    { run.files[k] :
        k \in { j \in (run.i + 1)..Len(run.files) :
                  /\ scanFilter(run.files[j])
                  /\ filesAreDifferent(run.files[j], toTargetName(run.files[j])) } }

\* Bun.write, unlinkSync, copyFile or chmodSync throws for the current file:
\* neither tree is written and the error leaves dotsSync
syncThrows(sourceFile, prompt, routed) ==
    /\ UNCHANGED <<src, tgt>>
    /\ aborts([obs EXCEPT
                  !.prompts = @ \cup {prompt},
                  !.seen = @ \cup {sourceFile},
                  !.menus = IF prompt = "menu" THEN @ \cup {sourceFile} ELSE @,
                  !.failed = {sourceFile},
                  !.pending = syncPending],
              "Error", routed)

\* the confirm or the menu of the current file is aborted
syncCancelled(sourceFile, prompt, routed) ==
    /\ UNCHANGED <<src, tgt>>
    /\ aborts([obs EXCEPT
                  !.prompts = @ \cup {prompt},
                  !.seen = @ \cup {sourceFile},
                  !.menus = IF prompt = "menu" THEN @ \cup {sourceFile} ELSE @,
                  !.pending = syncPending \cup {sourceFile}],
              "ExitPromptError", routed)

dotsSync_step ==
    /\ pc = "sync_loop"
    /\ run.i <= Len(run.files)
    /\ UNCHANGED <<codec, boot, rel, add, ign, cls, srcDirExists, srcGitDir, cfg, now, src0, tgt0, ncmds>>
    /\ LET sourceFile == run.files[run.i]
           targetName == toTargetName(sourceFile)
       IN  IF ~scanFilter(sourceFile)
           THEN /\ run' = [run EXCEPT !.i = @ + 1]
                /\ UNCHANGED <<src, tgt, obs, pc>>
           ELSE IF ~exists(tgt, targetName)
           THEN \/ \E shouldDelete \in BOOLEAN :
                     /\ syncMissing(sourceFile, targetName, shouldDelete)
                     /\ UNCHANGED pc
                \/ \E routed \in BOOLEAN : syncThrows(sourceFile, "confirm", routed)
                \/ \E routed \in BOOLEAN : syncCancelled(sourceFile, "confirm", routed)
           ELSE IF filesAreDifferent(sourceFile, targetName)
           THEN \/ \E action \in {"inline", "difftool", "to-repo", "to-home", "skip"} :
                     /\ syncMenu(sourceFile, targetName, action)
                     /\ UNCHANGED pc
                \/ \E routed \in BOOLEAN : syncThrows(sourceFile, "menu", routed)
                \/ \E routed \in BOOLEAN : syncCancelled(sourceFile, "menu", routed)
           ELSE /\ run' = [run EXCEPT !.i = @ + 1]
                /\ obs' = [obs EXCEPT !.seen = @ \cup {sourceFile}]
                /\ UNCHANGED <<src, tgt, pc>>

dotsSync_finish ==
    /\ pc = "sync_loop"
    /\ run.i > Len(run.files)
    /\ UNCHANGED <<codec, boot, rel, add, ign, cls, src, tgt, srcDirExists, srcGitDir, cfg, now, src0, tgt0, ncmds>>
    /\ \E git \in GitRuns :
          obs' = IF run.updated # {} \/ run.removed # {}
                 THEN [obs EXCEPT !.out = "synced", !.gitHelper = TRUE,
                         !.git = gitCommitAndPush(git),
                         !.exits = gitExits(gitCommitAndPush(git), git)]
                 ELSE [obs EXCEPT !.out = "synced"]
    /\ run' = NoRun
    /\ pc' = "idle"

\* ------------------------------------------------------------------------
\* dots status, dots diff, dots list
\* ------------------------------------------------------------------------
\* the three buckets of dotsStatus (dots.ts:807-825)
statusMissing ==
    { f \in SeqRange(scanned) : ~exists(tgt, toTargetName(f)) }

statusModified ==
    { f \in SeqRange(scanned) :
        exists(tgt, toTargetName(f)) /\ filesAreDifferent(f, toTargetName(f)) }

statusSynced == SeqRange(scanned) \ (statusMissing \cup statusModified)

\* variant: a status that restores the files it finds missing
dotsStatus_restoring ==
    /\ Begin("status")
    /\ srcDirExists
    /\ UNCHANGED <<codec, boot, rel, add, ign, cls, src, srcDirExists, srcGitDir, cfg, now, pc, run>>
    /\ tgt' = [t \in TPaths |->
                 IF \E f \in statusMissing : toTargetName(f) = t
                 THEN [c |-> "A", m |-> 420] ELSE tgt[t]]
    /\ obs' = [NoObs EXCEPT !.cmd = "status", !.out = "status",
                 !.seen = SeqRange(scanned), !.missing = statusMissing]

dotsStatus ==
    /\ Begin("status")
    /\ UNCHANGED <<codec, boot, rel, add, ign, cls, src, tgt, srcDirExists, srcGitDir, cfg, now, pc, run>>
    /\ obs' = IF ~srcDirExists
              THEN [NoObs EXCEPT !.cmd = "status", !.out = "error"]
              ELSE [NoObs EXCEPT !.cmd = "status", !.out = "status",
                      !.seen = SeqRange(scanned),
                      !.modified = statusModified,
                      !.missing = statusMissing,
                      !.synced = statusSynced]

\* String.prototype.includes on a path, for a filter that is one token
includes(path, file) ==
    \E k \in 1..Len(path) : \E j \in 1..Len(path[k]) : path[k][j] = file

DiffArgs == {"", "zshrc", "config"}

\* dots.ts:876: if (file && !targetName.includes(file) && !sourceFile.includes(file)) continue
diffMatches(sourceFile, file) ==
    file = "" \/ includes(toTargetName(sourceFile), file) \/ includes(sourceFile, file)

dotsDiff ==
    \E file \in DiffArgs :
        /\ Begin("diff")
        /\ UNCHANGED <<codec, boot, rel, add, ign, cls, src, tgt, srcDirExists, srcGitDir, cfg, now, pc, run>>
        /\ IF ~srcDirExists
           THEN obs' = [NoObs EXCEPT !.cmd = "diff", !.out = "error"]
           ELSE LET matched == { f \in SeqRange(scanned) : diffMatches(f, file) }
                    menus == IF file = "" THEN {}
                             ELSE matched \cap statusModified
                    shown == [NoObs EXCEPT !.cmd = "diff", !.out = "diff",
                                !.seen = matched,
                                !.menus = menus,
                                !.prompts = IF menus = {} THEN {} ELSE {"menu"},
                                !.modified = matched \cap statusModified,
                                !.missing = matched \cap statusMissing]
                IN  \/ obs' = shown
                    \/ \* a "View diff:" menu is aborted
                       /\ menus # {}
                       /\ \E routed \in BOOLEAN :
                            obs' = escapes(shown, "ExitPromptError", routed)

\* variant: list without the test of the source directory
dotsList_unchecked ==
    /\ Begin("list")
    /\ UNCHANGED <<codec, boot, rel, add, ign, cls, src, tgt, srcDirExists, srcGitDir, cfg, now, pc, run>>
    /\ obs' = [NoObs EXCEPT !.cmd = "list", !.out = "list", !.seen = SeqRange(scanned)]

dotsList ==
    /\ Begin("list")
    /\ UNCHANGED <<codec, boot, rel, add, ign, cls, src, tgt, srcDirExists, srcGitDir, cfg, now, pc, run>>
    /\ obs' = IF ~srcDirExists
              THEN [NoObs EXCEPT !.cmd = "list", !.out = "error"]
              ELSE [NoObs EXCEPT !.cmd = "list", !.out = "list",
                      !.seen = SeqRange(scanned)]

\* ------------------------------------------------------------------------
\* dots rm <path>
\* ------------------------------------------------------------------------
\* dots.ts:999-1008: the source files searched for the one to remove
rmCandidates == listFilesRecursively(src)

\* variant: the match compares file names only
foundSource_basename(relativeTarget) ==
    LET matches == SelectSeq(rmCandidates,
                     LAMBDA f : basename(toTargetName(f)) = basename(relativeTarget))
    IN  IF Len(matches) = 0 THEN <<>> ELSE matches[1]

\* the first source file whose decoded name is the target-relative path
foundSource(relativeTarget) ==
    LET matches == SelectSeq(rmCandidates,
                     LAMBDA f : toTargetName(f) = relativeTarget)
    IN  IF Len(matches) = 0 THEN <<>> ELSE matches[1]

dotsRm ==
    \E relativeTarget \in RmArgs :
        /\ Begin("rm")
        /\ UNCHANGED <<codec, boot, rel, add, ign, cls, tgt, srcDirExists, srcGitDir, cfg, now, pc, run>>
        /\ LET found == foundSource(relativeTarget)
               asked == [NoObs EXCEPT !.cmd = "rm",
                           !.prompts = {"confirm"},
                           !.seen = {found},
                           !.last = <<relativeTarget, found>>]
           IN  IF found = <<>>
               THEN /\ obs' = [NoObs EXCEPT !.cmd = "rm", !.out = "error",
                                 !.last = <<relativeTarget, found>>]
                    /\ UNCHANGED src
               ELSE \/ \* the confirm is aborted
                       /\ \E routed \in BOOLEAN :
                            obs' = escapes(asked, "ExitPromptError", routed)
                       /\ UNCHANGED src
                    \/ \* answered no
                       /\ obs' = [asked EXCEPT !.out = "cancelled",
                                    !.declined = {found}]
                       /\ UNCHANGED src
                    \/ \* answered yes
                       /\ src' = unlink(src, found)
                       /\ \E git \in GitRuns :
                            obs' = [asked EXCEPT !.out = "removed",
                                      !.writes = {<<"src", found>>},
                                      !.gitHelper = TRUE,
                                      !.git = gitCommitAndPush(git),
                                      !.exits = gitExits(gitCommitAndPush(git), git)]

\* ------------------------------------------------------------------------
\* Startup drift check
\* ------------------------------------------------------------------------
\* dots.ts:1181-1196, the gate of the startup check on a dots section whose
\* sourceDir can be read: checkInterval === 0, the source directory does not
\* exist, or lastChecked is set and less than checkInterval hours old (a
\* comparison with an absent checkInterval is false)
gatedOff(dots, dirExists, t) ==
    \/ ("checkInterval" \in DOMAIN dots /\ dots.checkInterval = 0)
    \/ ~dirExists
    \/ /\ "lastChecked" \in DOMAIN dots
       /\ dots.lastChecked # Unset
       /\ "checkInterval" \in DOMAIN dots
       /\ t - dots.lastChecked < dots.checkInterval


checkDotfilesOnStartup ==
    /\ Begin("startup")
    /\ UNCHANGED <<codec, boot, rel, add, ign, cls, src, tgt, srcDirExists, srcGitDir, now, pc, run>>
    /\ IF gatedOff(cfg, srcDirExists, now)
       THEN /\ obs' = [NoObs EXCEPT !.cmd = "startup", !.out = "gated"]
            /\ UNCHANGED cfg
       ELSE /\ cfg' = [cfg EXCEPT !.lastChecked = now]
            /\ obs' = [NoObs EXCEPT !.cmd = "startup",
                         !.out = IF statusModified \cup statusMissing = {}
                                 THEN "quiet" ELSE "warned",
                         !.seen = SeqRange(scanned),
                         !.modified = statusModified,
                         !.missing = statusMissing]

Next ==
    \/ dotsAdd
    \/ dotsApply_scan
    \/ dotsApply_select
    \/ dotsApply_step
    \/ dotsApply_finish
    \/ dotsSync_start
    \/ dotsSync_step
    \/ dotsSync_finish
    \/ dotsStatus
    \/ dotsDiff
    \/ dotsList
    \/ dotsRm
    \/ checkDotfilesOnStartup

Spec == Init /\ [][Next]_vars

\* ------------------------------------------------------------------------
\* Inputs of the codec specification
\* ------------------------------------------------------------------------
CodecSegs ==
    { <<".", "zshrc">>, <<"config">>, <<".", "ssh">>, <<"tool.conf">>,
      <<".", "config">>, <<"bin">>, <<"run.sh">>, <<".", "git">> }

CodecPaths == UNION { [1..n -> CodecSegs] : n \in 1..MaxDepth }

CodecInit ==
    /\ src = [p \in SPaths |-> NoFile]
    /\ tgt = [p \in TPaths |-> NoFile]
    /\ srcDirExists = FALSE
    /\ srcGitDir = FALSE
    /\ cfg = [autoPush |-> FALSE, checkInterval |-> DefaultCheckInterval, lastChecked |-> Unset]
    /\ now = 0
    /\ pc = "codec"
    /\ run = NoRun
    /\ obs = NoObs
    /\ src0 = src
    /\ tgt0 = tgt
    /\ ncmds = 0
    /\ boot = [stage |-> "off"]
    /\ rel = [pc |-> "off"]
    /\ add = [stage |-> "off"]
    /\ ign = [stage |-> "off"]
    /\ cls = [stage |-> "off"]
    /\ codec \in [stage : {"input"}, p : CodecPaths, isPrivate : BOOLEAN,
               isExecutable : BOOLEAN, enc : {<<>>}, dec : {<<>>}, mode : {0}]

Encode ==
    /\ codec.stage = "input"
    /\ UNCHANGED fsvars
    /\ codec' = [codec EXCEPT !.stage = "encoded",
                   !.enc = toSourceName(codec.p, codec.isPrivate, codec.isExecutable)]

Decode ==
    /\ codec.stage = "encoded"
    /\ UNCHANGED fsvars
    /\ codec' = [codec EXCEPT !.stage = "decoded",
                   !.dec = toTargetName(codec.enc),
                   !.mode = getFileMode(codec.enc)]

CodecNext == Encode \/ Decode

SpecCodec == CodecInit /\ [][CodecNext]_vars

\* ------------------------------------------------------------------------
\* h release (src/src/commands/release.ts)
\* ------------------------------------------------------------------------
\* most pre-release hooks the .hrc file lists
MaxHooks == 2

\* versions found in the version file
Versions == { <<1, 2, 3>>, <<0, 9, 9>> }

incrementVersion(version, type) ==
    CASE type = "major" -> <<version[1] + 1, 0, 0>>
      [] type = "minor" -> <<version[1], version[2] + 1, 0>>
      [] type = "patch" -> <<version[1], version[2], version[3] + 1>>

\* variables other than rel, as the release specification leaves them
relFrame ==
    UNCHANGED <<codec, boot, add, ign, cls, src, tgt, srcDirExists, srcGitDir, cfg, now, pc, run, obs,
                src0, tgt0, ncmds>>

\* the process ends: process.exit(code), or the action returns and the
\* finally block removes the two listeners
exited(r, how, code) ==
    [r EXCEPT !.pc = "exited", !.how = how, !.code = code]

\* release.ts:278-287, the cleanup closure: revert the version file if the
\* release changed it, then process.exit(0)
cleanup(r, how) ==
    exited([r EXCEPT !.file = IF r.versionWasChanged /\ r.originalVersion # <<>>
                               THEN r.originalVersion ELSE @],
           how, 0)

\* release.ts:611-616: a prompt rejected with ExitPromptError outside the
\* inner try blocks reaches the action's catch, which calls cleanup()
promptCancelled(r) == cleanup([r EXCEPT !.interrupted = "prompt"], "cancelled")

\* release.ts:373, 450: updateVersionInFile(versionFile, currentVersion), return
reverted(r, how) == exited([r EXCEPT !.file = r.currentVersion], how, 0)

RelInit ==
    /\ src = [p \in SPaths |-> NoFile]
    /\ tgt = [p \in TPaths |-> NoFile]
    /\ srcDirExists = FALSE
    /\ srcGitDir = FALSE
    /\ cfg = [autoPush |-> FALSE, checkInterval |-> DefaultCheckInterval, lastChecked |-> Unset]
    /\ now = 0
    /\ pc = "release"
    /\ run = NoRun
    /\ obs = NoObs
    /\ src0 = src
    /\ tgt0 = tgt
    /\ ncmds = 0
    /\ codec = [stage |-> "off"]
    /\ boot = [stage |-> "off"]
    /\ add = [stage |-> "off"]
    /\ ign = [stage |-> "off"]
    /\ cls = [stage |-> "off"]
    /\ rel \in [pc : {"start"}, file : Versions, file0 : Versions,
                hooks : 0..MaxHooks, currentVersion : {<<>>}, originalVersion : {<<>>},
                newVersion : {<<>>}, versionWasChanged : {FALSE},
                listeners : {<<"gracefulExit">>}, wrote : {FALSE}, useAI : {FALSE},
                interrupted : {"none"}, how : {"running"}, code : {0}]
    /\ rel.file0 = rel.file

\* release.ts:273-301: the action registers cleanup for SIGINT and SIGTERM,
\* after the listeners index.ts registered at load, and detects the branch
release_start ==
    /\ rel.pc = "start"
    /\ relFrame
    /\ LET r == [rel EXCEPT !.listeners = Append(@, "cleanup")]
       IN  \E currentBranch \in BOOLEAN :
             rel' = IF currentBranch THEN [r EXCEPT !.pc = "config"]
                    ELSE exited(r, "no_branch", 0)

\* release.ts:303-319: load .hrc (asking to create it when absent) and read
\* the current version
release_config ==
    /\ rel.pc = "config"
    /\ relFrame
    /\ \/ \* the "create a default .hrc file?" confirm is aborted
          rel' = promptCancelled(rel)
       \/ \E found \in BOOLEAN :
             rel' = IF found
                    THEN [rel EXCEPT !.pc = "select", !.currentVersion = rel.file,
                            !.originalVersion = rel.file]
                    ELSE exited(rel, "no_version", 0)

\* release.ts:324-364: choose the increment and write the new version
release_select ==
    /\ rel.pc = "select"
    /\ relFrame
    /\ \/ rel' = promptCancelled(rel)
       \/ rel' = [rel EXCEPT !.pc = "pre_hooks", !.newVersion = rel.currentVersion]
       \/ \E type \in {"major", "minor", "patch"}, written \in BOOLEAN :
             LET newVersion == incrementVersion(rel.currentVersion, type)
             IN  rel' = IF written
                        THEN [rel EXCEPT !.pc = "pre_hooks", !.newVersion = newVersion,
                                !.file = newVersion, !.wrote = TRUE,
                                !.versionWasChanged = TRUE]
                        ELSE exited(rel, "write_failed", 0)

\* release.ts:367-379: one pre-release hook
release_preHook ==
    /\ rel.pc = "pre_hooks"
    /\ rel.hooks > 0
    /\ relFrame
    /\ \E ok \in BOOLEAN :
          rel' = IF ok THEN [rel EXCEPT !.hooks = @ - 1]
                 ELSE reverted(rel, "hook_failed")

\* release.ts:382-415: look for changes and stage them
release_stage ==
    /\ rel.pc = "pre_hooks"
    /\ rel.hooks = 0
    /\ relFrame
    /\ \/ rel' = exited(rel, "no_changes", 0)
       \/ rel' = exited(rel, "not_staged", 0)    \* answered no, or git add threw
       \/ rel' = promptCancelled(rel)
       \/ rel' = [rel EXCEPT !.pc = "message"]

\* release.ts:418-423: "Use AI to generate commit message?"
release_useAI ==
    /\ rel.pc = "message"
    /\ relFrame
    /\ \/ rel' = promptCancelled(rel)
       \/ \E useAI \in BOOLEAN : rel' = [rel EXCEPT !.pc = "commit_message", !.useAI = useAI]

\* release.ts:174-265, getCommitMessage: with AI, the "Use this commit
\* message?" confirm sits inside a try whose catch falls through to the
\* input prompt; the input prompt itself is outside it
release_getCommitMessage ==
    /\ rel.pc = "commit_message"
    /\ relFrame
    /\ \/ rel.useAI /\ rel' = [rel EXCEPT !.pc = "confirm"]
       \/ \* typed at the input prompt (also after an aborted AI confirm)
          rel' = [rel EXCEPT !.pc = "confirm", !.useAI = FALSE]
       \/ rel' = promptCancelled(rel)

\* release.ts:442-453: "Proceed with release?"
release_proceed ==
    /\ rel.pc = "confirm"
    /\ relFrame
    /\ \/ rel' = promptCancelled(rel)
       \/ rel' = reverted(rel, "declined")
       \/ rel' = [rel EXCEPT !.pc = "git"]

\* release.ts:458-597: commit, release notes, tag, push, inside one try
\* whose catch prints "Git operations failed" and returns
release_git ==
    /\ rel.pc = "git"
    /\ relFrame
    /\ \/ rel' = [rel EXCEPT !.pc = "post"]
       \/ rel' = exited(rel, "git_failed", 0)
       \/ \* a confirm inside the try is aborted: its catch takes the error
          rel' = exited([rel EXCEPT !.interrupted = "prompt"], "git_failed", 0)

\* release.ts:600-610: post-release hooks, success, the change is permanent
release_finish ==
    /\ rel.pc = "post"
    /\ relFrame
    /\ rel' = exited([rel EXCEPT !.versionWasChanged = FALSE], "completed", 0)

\* SIGINT or SIGTERM while the action is waiting (a hook, git, the AI call):
\* the listeners run in the order they were registered, and the first one
\* to call process.exit ends the process
release_signal ==
    /\ rel.pc \notin {"start", "exited", "off"}
    /\ relFrame
    /\ LET r == [rel EXCEPT !.interrupted = "signal"]
       IN  rel' = IF Head(r.listeners) = "cleanup"
                  THEN cleanup(r, "signalled")
                  ELSE exited(r, "signalled", 0)

RelNext ==
    \/ release_start
    \/ release_config
    \/ release_select
    \/ release_preHook
    \/ release_stage
    \/ release_useAI
    \/ release_getCommitMessage
    \/ release_proceed
    \/ release_git
    \/ release_finish
    \/ release_signal

SpecRelease == RelInit /\ [][RelNext]_vars

\* ------------------------------------------------------------------------
\* The configuration file and one start of the CLI (src/src/utils/config.ts,
\* src/src/utils/update.ts, src/src/index.ts)
\*
\* A JSON object is a function from the keys it has to their values; a key
\* the object lacks is outside its DOMAIN (JavaScript reads it as undefined).
\* Of the dots section the keys sourceDir, autoPush, checkInterval and
\* lastChecked are kept; targetDir and ignoredPatterns are read where
\* sourceDir is.  Timestamps are hours.
\* ------------------------------------------------------------------------
DEFAULT_CONFIG ==
    [ai |-> [provider |-> "claude"],
     updates |-> [checkOnStartup |-> TRUE],
     dots |-> [sourceDir |-> "~/.local/share/chezmoi", autoPush |-> FALSE,
               checkInterval |-> DefaultCheckInterval]]

\* CHECK_INTERVAL_MS of update.ts, in hours
UpdateCheckHours == 24

\* the object spread { ...a, ...b }
spread(a, b) ==
    [k \in DOMAIN a \cup DOMAIN b |-> IF k \in DOMAIN b THEN b[k] ELSE a[k]]

\* the configuration file: absent, not parseable, or a JSON object
MissingFile == [kind |-> "missing", json |-> DEFAULT_CONFIG]

CorruptFile == [kind |-> "corrupt", json |-> DEFAULT_CONFIG]

JsonFile(config) == [kind |-> "json", json |-> config]

saveConfig(config) == JsonFile(config)

\* loadConfig: the configuration it returns, the file it leaves, and whether
\* it printed "Failed to parse config file"
loadConfig(file) ==
    CASE file.kind = "missing" ->
           [config |-> DEFAULT_CONFIG, file |-> saveConfig(DEFAULT_CONFIG), err |-> FALSE]
      [] file.kind = "corrupt" ->
           [config |-> DEFAULT_CONFIG, file |-> file, err |-> TRUE]
      [] file.kind = "json" ->
           [config |-> spread(DEFAULT_CONFIG, file.json), file |-> file, err |-> FALSE]

\* getDotsConfig (dots.ts:18-38): config.dots || { the default section }
getDotsConfig(file) ==
    LET config == loadConfig(file).config
    IN  IF "dots" \in DOMAIN config THEN config.dots ELSE DEFAULT_CONFIG.dots

\* updateConfig({ updates: u }): the file it writes
updateConfig(file, u) ==
    LET config == loadConfig(file).config
        newConfig == [spread(config, [updates |-> u]) EXCEPT
                        !.ai = config.ai,
                        !.updates = spread(config.updates, u)]
    IN  saveConfig(IF "dots" \in DOMAIN config
                   THEN [newConfig EXCEPT !.dots = spread(DEFAULT_CONFIG.dots, config.dots)]
                   ELSE newConfig)

\* a key read as a condition: absent (undefined) is falsy
truthy(obj, key) == key \in DOMAIN obj /\ obj[key] # FALSE

shouldCheckForUpdate(config, t) ==
    /\ truthy(config.updates, "checkOnStartup")
    /\ ~("lastChecked" \in DOMAIN config.updates
           /\ t - config.updates.lastChecked < UpdateCheckHours)

\* the configuration files a start of the CLI can find: written by the CLI,
\* or written by hand with only some sections and keys
UpdatesSections ==
    { [checkOnStartup |-> TRUE], [checkOnStartup |-> FALSE],
      [checkOnStartup |-> TRUE, lastChecked |-> 0], [lastChecked |-> 0] }

DotsSections ==
    { [sourceDir |-> "~/dotfiles", autoPush |-> FALSE, checkInterval |-> ci] :
        ci \in {0, 1, DefaultCheckInterval} }
      \cup { [sourceDir |-> "~/dotfiles", autoPush |-> FALSE, checkInterval |-> ci,
              lastChecked |-> 0] : ci \in {0, 1, DefaultCheckInterval} }
      \cup { [autoPush |-> TRUE],
              [sourceDir |-> "~/dotfiles", autoPush |-> TRUE, lastChecked |-> 0] }

JsonObjects ==
    LET ai == [ai |-> [provider |-> "ollama"]]
    IN  {ai}
          \cup { spread(ai, [updates |-> u]) : u \in UpdatesSections }
          \cup { spread(ai, [dots |-> d]) : d \in DotsSections }
          \cup { spread(ai, [updates |-> u, dots |-> d]) :
                   u \in UpdatesSections, d \in DotsSections }

ConfigFiles == {MissingFile, CorruptFile} \cup { JsonFile(j) : j \in JsonObjects }

\* variables other than boot, as a start of the CLI leaves them
bootFrame ==
    UNCHANGED <<codec, rel, add, ign, cls, src, tgt, srcDirExists, srcGitDir, cfg, now, pc, run, obs,
                src0, tgt0, ncmds>>

BootInit ==
    /\ srcDirExists \in BOOLEAN
    /\ srcGitDir = FALSE
    /\ src = InitSrc(IF srcDirExists THEN {DotZshrc} ELSE {}, FALSE)
    /\ tgt \in { h \in InitHome : ~exists(h, toTargetName(SshConfig)) }
    /\ cfg = [autoPush |-> FALSE, checkInterval |-> DefaultCheckInterval, lastChecked |-> Unset]
    /\ now \in {1, 23, 24}
    /\ pc = "boot"
    /\ run = NoRun
    /\ obs = NoObs
    /\ src0 = src
    /\ tgt0 = tgt
    /\ ncmds = 0
    /\ codec = [stage |-> "off"]
    /\ rel = [pc |-> "off"]
    /\ add = [stage |-> "off"]
    /\ ign = [stage |-> "off"]
    /\ cls = [stage |-> "off"]
    /\ \E file \in ConfigFiles :
          boot = [stage |-> "start", file |-> file, file0 |-> file, seen |-> file,
                  loaded |-> DEFAULT_CONFIG, dotsConfig |-> DEFAULT_CONFIG.dots,
                  scan |-> "none", wrote |-> FALSE, out |-> {}, code |-> 0]

\* update.ts:39-51 and index.ts:61: the part of checkForUpdates that runs
\* before its first await.  notice: the fetch found a newer release.
checkForUpdates ==
    /\ boot.stage = "start"
    /\ bootFrame
    /\ LET l == loadConfig(boot.file)
           checks == shouldCheckForUpdate(l.config, now)
           file == IF checks
                   THEN updateConfig(l.file, [checkOnStartup |-> TRUE, lastChecked |-> now])
                   ELSE l.file
       IN  \E notice \in BOOLEAN :
             /\ notice => checks
             /\ boot' = [boot EXCEPT
                           !.stage = "updates",
                           !.file = file,
                           !.loaded = l.config,
                           !.out = (IF l.err THEN {"parse_error"} ELSE {})
                                     \cup (IF notice THEN {"update_available"} ELSE {})]

\* variant: the drift check works on the file as it was before the update
\* check wrote it
driftCheckFile_beforeUpdate(b) == b.file0

\* the file loadConfig reads in checkDotfilesOnStartup: index.ts calls it
\* after checkForUpdates() has returned its promise, and checkForUpdates
\* writes the configuration before its first await
driftCheckFile(b) == b.file

\* checkDotfilesOnStartup (dots.ts:1176-1245) on the configuration file.
\* scanOk: listFilesRecursively and the comparisons did not throw.
startupDriftCheck ==
    /\ boot.stage = "updates"
    /\ bootFrame
    /\ LET l == loadConfig(driftCheckFile(boot))
           config == l.config
           dots == config.dots
           err == IF l.err THEN {"parse_error"} ELSE {}
           read == [boot EXCEPT !.stage = "dots", !.file = l.file, !.seen = driftCheckFile(boot),
                      !.out = @ \cup err]
       IN  IF "checkInterval" \in DOMAIN dots /\ dots.checkInterval = 0
           THEN boot' = [read EXCEPT !.scan = "gated"]
           ELSE IF "sourceDir" \notin DOMAIN dots
           THEN \* expandPath(undefined) throws; the catch swallows it
                boot' = [read EXCEPT !.scan = "threw"]
           ELSE IF gatedOff(dots, srcDirExists, now)
           THEN boot' = [read EXCEPT !.scan = "gated"]
           ELSE LET updatedConfig ==
                      [config EXCEPT !.dots = spread(dots, [lastChecked |-> now])]
                    drift == statusModified \cup statusMissing # {}
                IN  \E scanOk \in BOOLEAN :
                      boot' = [read EXCEPT
                                 !.file = saveConfig(updatedConfig),
                                 !.wrote = TRUE,
                                 !.scan = IF ~scanOk THEN "failed"
                                          ELSE IF drift THEN "warned" ELSE "quiet",
                                 !.out = IF scanOk /\ drift
                                         THEN @ \cup {"out_of_sync"} ELSE @]

\* the command of this invocation, one that does not edit the configuration
\* (for instance `h dots status`): it reads its dots section
primaryCommand ==
    /\ boot.stage = "dots"
    /\ bootFrame
    /\ LET l == loadConfig(boot.file)
       IN  boot' = [boot EXCEPT
                     !.stage = "exit",
                     !.file = l.file,
                     !.dotsConfig = getDotsConfig(boot.file),
                     !.out = IF l.err THEN @ \cup {"parse_error"} ELSE @]

BootNext == checkForUpdates \/ startupDriftCheck \/ primaryCommand

SpecBoot == BootInit /\ [][BootNext]_vars

\* ========================================================================
\* `dots add <path>` on absolute paths (dots.ts:360-435)
\*
\* An absolute path is the sequence of its segments from the root; ".." is
\* the segment <<".", ".">>.  The file system resolves ".." segments when it
\* opens a path, as path.join and path.relative do.
\* ------------------------------------------------------------------------
DotDot == <<".", ".">>

\* process.env.HOME
HOME == << <<"home">>, <<"user">> >>

\* expandPath(dotsConfig.sourceDir)
SourceDir == HOME \o << <<"dotfiles">> >>

\* path.normalize on a path from the root
RECURSIVE normalize(_)
normalize(path) ==
    IF path = <<>> THEN <<>>
    ELSE LET init == normalize(Front(path))
             last == path[Len(path)]
         IN  IF last = DotDot
             THEN IF init = <<>> THEN <<>> ELSE Front(init)
             ELSE init \o <<last>>

\* path.join(a, b)
join(a, b) == normalize(a \o b)

\* expandPath (dots.ts:10-15) on an argument [form, segs]: "~/x" is joined
\* to HOME, every other path is returned as it is
expandPath(path) ==
    IF path.form = "tilde" THEN join(HOME, path.segs) ELSE path.segs

\* dots.ts:368-372: absoluteTarget
absoluteTarget(targetPath, cwd) ==
    IF targetPath.form = "rel" THEN join(cwd, targetPath.segs)
    ELSE expandPath(targetPath)

IsPrefix(a, b) == Len(a) <= Len(b) /\ SubSeq(b, 1, Len(a)) = a

\* absoluteTarget.startsWith(home): a prefix test on the characters, so the
\* last segment of home need only begin the segment at its place
pathStartsWith(path, dir) ==
    /\ Len(path) >= Len(dir)
    /\ SubSeq(path, 1, Len(dir) - 1) = Front(dir)
    /\ IsPrefix(dir[Len(dir)], path[Len(dir)])

RECURSIVE commonLen(_, _)
commonLen(a, b) ==
    IF a = <<>> \/ b = <<>> \/ a[1] # b[1] THEN 0
    ELSE 1 + commonLen(Tail(a), Tail(b))

\* path.relative(from, to)
relative(from, to) ==
    LET f == normalize(from)
        t == normalize(to)
        c == commonLen(f, t)
    IN  [i \in 1..(Len(f) - c) |-> DotDot] \o SubSeq(t, c + 1, Len(t))

\* the file at path p is below directory dir
inside(dir, p) ==
    LET r == normalize(p)
    IN  IsPrefix(normalize(dir), r) /\ Len(r) > Len(normalize(dir))

\* arguments of `dots add`
AddArgs ==
    { [form |-> "abs", segs |-> HOME \o << <<".", "zshrc">> >>],
      [form |-> "abs", segs |-> HOME \o << <<".", "config">>, <<"tool.conf">> >>],
      [form |-> "abs", segs |-> HOME \o << <<"dot_", "notes">> >>],
      [form |-> "abs", segs |-> << <<"home">>, <<"user", "2">>, <<".", "zshrc">> >>],
      [form |-> "abs", segs |-> HOME \o << DotDot, <<"other">>, <<".", "zshrc">> >>],
      [form |-> "abs", segs |-> << <<"etc">>, <<"hosts">> >>],
      [form |-> "tilde", segs |-> << <<".", "zshrc">> >>],
      [form |-> "rel", segs |-> << <<".", "zshrc">> >>] }

\* process.cwd()
Cwds == { HOME, << <<"tmp">> >> }

\* expandPath(dotsConfig.targetDir): "~", "~/sub", "/mnt"
TargetDirs == { HOME, HOME \o << <<"sub">> >>, << <<"mnt">> >> }

addFrame ==
    UNCHANGED <<codec, boot, rel, ign, cls, src, tgt, srcDirExists, srcGitDir, cfg, now, pc,
                run, obs, src0, tgt0, ncmds>>

\* present: a regular file exists at the argument's location
AddInit ==
    /\ src = [p \in SPaths |-> NoFile]
    /\ tgt = [p \in TPaths |-> NoFile]
    /\ srcDirExists = TRUE
    /\ srcGitDir \in BOOLEAN
    /\ cfg \in [autoPush : BOOLEAN, checkInterval : {DefaultCheckInterval},
                lastChecked : {Unset}]
    /\ now = 0
    /\ pc = "add"
    /\ run = NoRun
    /\ obs = NoObs
    /\ src0 = src
    /\ tgt0 = tgt
    /\ ncmds = 0
    /\ codec = [stage |-> "off"]
    /\ boot = [stage |-> "off"]
    /\ rel = [pc |-> "off"]
    /\ ign = [stage |-> "off"]
    /\ cls = [stage |-> "off"]
    /\ add \in [stage : {"start"}, targetPath : AddArgs, cwd : Cwds,
                targetDir : TargetDirs, present : BOOLEAN, out : {"none"},
                absoluteTarget : {<<>>}, relativeTarget : {<<>>},
                isPrivate : {FALSE}, isExecutable : {FALSE},
                sourcePath : {<<>>}, git : {"none"},
                statusTarget : {<<>>}, bucket : {"none"}]

\* dotsAdd, the single-file branch
dotsAdd_file ==
    /\ add.stage = "start"
    /\ addFrame
    /\ LET abs == absoluteTarget(add.targetPath, add.cwd)
           a == [add EXCEPT !.stage = "done", !.absoluteTarget = abs]
       IN  IF ~pathStartsWith(abs, HOME)
           THEN add' = [a EXCEPT !.out = "error_outside_home"]
           ELSE IF ~add.present
           THEN add' = [a EXCEPT !.out = "error_no_path",
                          !.relativeTarget = relative(HOME, abs)]
           ELSE \E isPrivate \in BOOLEAN, isExecutable \in BOOLEAN, git \in GitRuns :
                  LET relativeTarget == relative(HOME, abs)
                      sourceName == toSourceName(relativeTarget, isPrivate, isExecutable)
                  IN  add' = [a EXCEPT
                                !.out = "added",
                                !.relativeTarget = relativeTarget,
                                !.isPrivate = isPrivate,
                                !.isExecutable = isExecutable,
                                !.sourcePath = join(SourceDir, sourceName),
                                !.git = gitCommitAndPush(git)]

\* dotsStatus (dots.ts:807-825) on the file add stored: the target path it
\* compares with.  other: what it finds at a location that is not the added
\* file's.
dotsStatus_added ==
    /\ add.stage = "done"
    /\ add.out = "added"
    /\ inside(SourceDir, add.sourcePath)
    /\ addFrame
    /\ LET sourceFile == relative(SourceDir, add.sourcePath)
           targetName == toTargetName(sourceFile)
           targetPath == join(add.targetDir, targetName)
       IN  \E other \in {"missing", "modified", "synced"} :
             /\ targetPath = normalize(add.absoluteTarget) => other = "synced"
             /\ add' = [add EXCEPT !.stage = "status", !.statusTarget = targetPath,
                          !.bucket = other]

AddNext == dotsAdd_file \/ dotsStatus_added

SpecAdd == AddInit /\ [][AddNext]_vars

\* ========================================================================
\* shouldIgnore (dots.ts:244-266)
\*
\* A pattern is a token sequence in which "*" is a token of its own.
\* ------------------------------------------------------------------------
endsWith(s, suffix) ==
    Len(suffix) <= Len(s) /\ SubSeq(s, Len(s) - Len(suffix) + 1, Len(s)) = suffix

\* path.includes(`/${pattern}/`): the pattern is a whole segment with a
\* slash on both sides
includesSegment(path, pattern) ==
    \E i \in 2..(Len(path) - 1) : path[i] = pattern

\* path.endsWith(`/${pattern}`)
endsWithSegment(path, pattern) == Len(path) >= 2 /\ path[Len(path)] = pattern

\* one round of the loop over the patterns
patternMatches(path, pattern) ==
    LET filename == basename(path)
    IN  IF startsWith(pattern, "*")
        THEN endsWith(filename, Tail(pattern))
        ELSE IF endsWith(pattern, <<"*">>)
        THEN IsPrefix(Front(pattern), filename)
        ELSE \/ filename = pattern
             \/ includesSegment(path, pattern)
             \/ endsWithSegment(path, pattern)

shouldIgnore(path, patterns) ==
    \E k \in 1..Len(patterns) : patternMatches(path, patterns[k])

\* DEFAULT_CONFIG.dots.ignoredPatterns
DefaultPatterns ==
    << <<".", "DS_Store">>, <<"*", ".", "swp">>, <<"*", ".", "swo">>, <<"*", "~">>,
       DotGit, <<"node_modules">>, <<"__pycache__">>, <<".", "cache">> >>

PatternLists ==
    { DefaultPatterns, <<>>, <<DotGit>>, << <<"*", ".", "swp">> >>,
      << <<"tmp", "*">> >>, << <<"tmp", "*">>, <<"node_modules">> >> }

\* relative paths as listFilesRecursively returns them
IgnorePaths ==
    { << <<".", "DS_Store">> >>,
      << <<"script", ".", "swp">> >>,
      << <<"notes", ".", "txt">> >>,
      << <<"lib">>, <<"notes", ".", "txt">> >>,
      << <<"x", "~">> >>,
      << <<"tmp", "file">> >>,
      << DotGit >>,
      << DotGit, <<"config">> >>,
      << <<"sub">>, DotGit >>,
      << <<"sub">>, DotGit, <<"HEAD">> >>,
      << <<"node_modules">>, <<"pkg">>, <<"index.js">> >> }

IgnoreInit ==
    /\ src = [p \in SPaths |-> NoFile]
    /\ tgt = [p \in TPaths |-> NoFile]
    /\ srcDirExists = FALSE
    /\ srcGitDir = FALSE
    /\ cfg = [autoPush |-> FALSE, checkInterval |-> DefaultCheckInterval, lastChecked |-> Unset]
    /\ now = 0
    /\ pc = "ignore"
    /\ run = NoRun
    /\ obs = NoObs
    /\ src0 = src
    /\ tgt0 = tgt
    /\ ncmds = 0
    /\ codec = [stage |-> "off"]
    /\ boot = [stage |-> "off"]
    /\ rel = [pc |-> "off"]
    /\ add = [stage |-> "off"]
    /\ cls = [stage |-> "off"]
    /\ ign \in [stage : {"input"}, path : IgnorePaths, patterns : PatternLists,
                ignored : {FALSE}]

\* dots.ts:441: allFiles.filter((f) => !shouldIgnore(f, ignoredPatterns))
shouldIgnore_call ==
    /\ ign.stage = "input"
    /\ UNCHANGED <<codec, boot, rel, add, cls, src, tgt, srcDirExists, srcGitDir, cfg, now,
                   pc, run, obs, src0, tgt0, ncmds>>
    /\ ign' = [ign EXCEPT !.stage = "result",
                 !.ignored = shouldIgnore(ign.path, ign.patterns)]

SpecIgnore == IgnoreInit /\ [][shouldIgnore_call]_vars

\* ========================================================================
\* Drift classification of one pair (dots.ts:314-324, 807-825)
\*
\* A file that exists may still fail to be read (permissions, a directory
\* in its place); whether it can be read is part of the pair's state.
\* ------------------------------------------------------------------------
\* variant: a failed read counts as "not different"
filesAreDifferent_try_same(s, t, sReadable, tReadable) ==
    \/ s = NoFile \/ t = NoFile
    \/ sReadable /\ tReadable /\ s.c # t.c

\* filesAreDifferent with its try/catch: a read that throws gives true
filesAreDifferent_try(s, t, sReadable, tReadable) ==
    \/ s = NoFile \/ t = NoFile
    \/ ~(sReadable /\ tReadable)
    \/ s.c # t.c

\* the bucket the loop of dotsStatus puts the pair in
classify(s, t, sReadable, tReadable) ==
    IF t = NoFile THEN "missing"
    ELSE IF filesAreDifferent_try(s, t, sReadable, tReadable) THEN "modified"
    ELSE "synced"

PairFiles == [c : Contents, m : {420, 384}]

ClassifyInit ==
    /\ src = [p \in SPaths |-> NoFile]
    /\ tgt = [p \in TPaths |-> NoFile]
    /\ srcDirExists = TRUE
    /\ srcGitDir = FALSE
    /\ cfg = [autoPush |-> FALSE, checkInterval |-> DefaultCheckInterval, lastChecked |-> Unset]
    /\ now = 0
    /\ pc = "classify"
    /\ run = NoRun
    /\ obs = NoObs
    /\ src0 = src
    /\ tgt0 = tgt
    /\ ncmds = 0
    /\ codec = [stage |-> "off"]
    /\ boot = [stage |-> "off"]
    /\ rel = [pc |-> "off"]
    /\ add = [stage |-> "off"]
    /\ ign = [stage |-> "off"]
    /\ cls \in [stage : {"pair"}, source : PairFiles, target : PairFiles \cup {NoFile},
                sourceReadable : BOOLEAN, targetReadable : BOOLEAN,
                first : {"none"}, second : {"none"}]

classifyFrame ==
    UNCHANGED <<codec, boot, rel, add, ign, src, tgt, srcDirExists, srcGitDir, cfg, now,
                pc, run, obs, src0, tgt0, ncmds>>

\* `dots status` classifies the pair
dotsStatus_pair ==
    /\ cls.stage = "pair"
    /\ classifyFrame
    /\ cls' = [cls EXCEPT !.stage = "once",
                 !.first = classify(cls.source, cls.target,
                                    cls.sourceReadable, cls.targetReadable)]

\* a second `dots status` on the unchanged pair
dotsStatus_again ==
    /\ cls.stage = "once"
    /\ classifyFrame
    /\ cls' = [cls EXCEPT !.stage = "twice",
                 !.second = classify(cls.source, cls.target,
                                     cls.sourceReadable, cls.targetReadable)]

ClassifyNext == dotsStatus_pair \/ dotsStatus_again

SpecClassify == ClassifyInit /\ [][ClassifyNext]_vars

\* ========================================================================
\* Properties
\* ========================================================================
\* a path inside a .git directory, at the root or nested at any depth
inDotGitDir(path) == \E k \in 1..(Len(path) - 1) : path[k] = DotGit

\* a path inside the .git directory at the root of the source tree
inRootGitDir(path) == Len(path) > 1 /\ path[1] = DotGit

\* the managed files of a source tree: those outside its root .git
managed(tree) == { f \in SPaths : exists(tree, f) /\ ~inRootGitDir(f) }

\* every managed file of the tree s has a target copy in t with its content
allInSync(s, t) ==
    \A f \in managed(s) : ~filesDiffer(s[f], t[toTargetName(f)])

\* the commands that scan the source tree
ScanCmds == {"apply", "sync", "status", "diff", "list", "startup"}

\* the source files a command classified, listed, prompted about, copied
\* or deleted
handled ==
    obs.seen \cup obs.menus \cup obs.copied \cup obs.kept
      \cup { f \in SPaths : src[f] # src0[f] }

\* C1: decoding the encoded path gives the path back, for every path and
\* every combination of the two flags.
C1_RoundTrip == codec.stage = "decoded" => codec.dec = codec.p

\* C2: the file `dots add` stores gets mode 0600 when the private flag is
\* set (whether or not executable is set too), 0755 with only the
\* executable flag, 0644 with neither; and that is the mode derived from
\* the encoded source path.
C2_PrivatePrecedence ==
    (obs.cmd = "add" /\ obs.out = "added") =>
        LET h == obs.last[1]
            isPrivate == obs.last[2]
            isExecutable == obs.last[3]
            sourceName == obs.last[4]
            expected == IF isPrivate THEN 384
                        ELSE IF isExecutable THEN 493 ELSE 420
        IN  /\ getFileMode(toSourceName(h, isPrivate, isExecutable)) = expected
            /\ src[sourceName].m = expected

\* C3: once apply has copied a source file whose target was missing, the
\* target exists at the decoded path with the source file's content and the
\* mode derived from the source path: dot_config/tool.conf gives
\* .config/tool.conf with 0644, private_dot_ssh/config gives .ssh/config
\* with 0600.
C3_ApplyCreatesTarget ==
    (obs.cmd = "apply" /\ obs.last # <<>> /\ obs.last[3]) =>
        LET f == obs.last[1]
            t == obs.last[2]
        IN  /\ t = toTargetName(f)
            /\ ~exists(tgt0, t)
            /\ exists(tgt, t)
            /\ tgt[t].c = src[f].c
            /\ tgt[t].m = (IF isPrivateSource(f) THEN 384
                           ELSE IF isExecutableSource(f) THEN 493 ELSE 420)
            /\ f = ToolConf =>
                  t = <<<<".", "config">>, <<"tool.conf">>>> /\ tgt[t].m = 420
            /\ f = SshConfig =>
                  t = <<<<".", "ssh">>, <<"config">>>> /\ tgt[t].m = 384

C3_Witness ==
    /\ obs.cmd = "apply"
    /\ pc = "idle"
    /\ obs.copied = {ToolConf, SshConfig}
    /\ ~exists(tgt0, toTargetName(ToolConf))
    /\ ~exists(tgt0, toTargetName(SshConfig))
    /\ tgt[toTargetName(SshConfig)] = [c |-> "A", m |-> 384]
    /\ tgt[toTargetName(ToolConf)] = [c |-> "A", m |-> 420]

\* C4: apply on a tree whose managed source files are all in sync with
\* their targets writes no file, shows no prompt and returns after the scan
\* with the already-in-sync message.
C4_ApplyInSyncNoop ==
    (obs.cmd = "apply" /\ srcDirExists /\ allInSync(src0, tgt0)) =>
        /\ pc = "idle"
        /\ obs.out = "in_sync"
        /\ obs.prompts = {}
        /\ obs.writes = {}
        /\ src = src0
        /\ tgt = tgt0

C4_Witness ==
    /\ obs.cmd = "apply"
    /\ srcDirExists
    /\ allInSync(src0, tgt0)
    /\ managed(src0) # {}
    /\ exists(src0, GitConfig)
    /\ obs.out = "in_sync"

\* C5: in apply, a drifted file whose target already exists is overwritten
\* only if the user chose 'apply' in its menu, and a drifted file the user
\* deselected in the multi-select is never written and never gets a menu.
C5_ApplyOnlyChosen ==
    obs.cmd = "apply" =>
        /\ \A f \in obs.copied :
              exists(tgt0, toTargetName(f)) => f \in obs.chose
        /\ obs.deselected \cap (obs.copied \cup obs.menus) = {}

\* C6: after a sync in which the user resolved every modified file with a
\* direction and confirmed every repo-side deletion, every source file left
\* is in sync: status reports no modified and no missing file.
C6_SyncIdempotent ==
    (obs.cmd = "sync" /\ pc = "idle" /\ obs.out = "synced" /\ obs.declined = {}) =>
        /\ statusModified = {}
        /\ statusMissing = {}

\* C7: in sync, the user is asked to confirm the repo-side deletion of every
\* tracked file whose target copy does not exist; where the user declines,
\* the source file still exists with the content it had and status still
\* reports the file as missing.
C7_DeclineKeepsSource ==
    obs.cmd = "sync" =>
        /\ \A f \in obs.kept :
              /\ "confirm" \in obs.prompts
              /\ ~exists(tgt0, toTargetName(f))
              /\ exists(src, f)
              /\ src[f] = src0[f]
              /\ f \in statusMissing
        /\ (pc = "idle" /\ obs.out = "synced") =>
              \A f \in managed(src0) :
                 ~exists(tgt0, toTargetName(f)) =>
                     f \in obs.kept \/ (~exists(src, f) /\ f \in obs.seen)

C7_Witness ==
    /\ obs.cmd = "sync"
    /\ pc = "idle"
    /\ SshConfig \in obs.kept
    /\ SshConfig \in statusMissing

\* C8: a confirmed `dots rm <path>` deletes only the source file whose
\* decoded name is the path and leaves the target tree as it was; a
\* declined one deletes nothing and does not call the commit-and-push helper.
C8_RmSourceOnly ==
    obs.cmd = "rm" =>
        LET relativeTarget == obs.last[1]
            found == obs.last[2]
        IN  /\ tgt = tgt0
            /\ obs.out = "removed" =>
                  /\ toTargetName(found) = relativeTarget
                  /\ exists(src0, found)
                  /\ src = [src0 EXCEPT ![found] = NoFile]
            /\ obs.out # "removed" =>
                  /\ src = src0
                  /\ ~obs.gitHelper
                  /\ obs.git = "none"

C8_Witness ==
    /\ obs.cmd = "rm"
    /\ obs.out = "removed"
    /\ obs.last[2] = DotZshrc
    /\ exists(tgt, obs.last[1])
    /\ ~exists(src, DotZshrc)

\* C9: `dots rm` never deletes a file inside the source repository's .git
\* directory.
C9_RmSparesGit ==
    obs.cmd = "rm" =>
        \A f \in SPaths : inDotGitDir(f) => src[f] = src0[f]

\* C10 as stated: in apply, sync, status, diff, list and the startup check,
\* no source file inside any .git directory, at the root or nested at any
\* depth, is classified, listed, prompted about, copied or deleted.
C10_NoGitAnyDepth ==
    obs.cmd \in ScanCmds => \A f \in handled : ~inDotGitDir(f)

\* C10 amended: in those commands no source file inside the .git directory
\* at the root of the source tree is classified, listed, prompted about,
\* copied or deleted.
C10_NoRootGit ==
    obs.cmd \in ScanCmds => \A f \in handled : ~inRootGitDir(f)

C10_Witness ==
    /\ obs.cmd = "sync"
    /\ pc = "idle"
    /\ exists(src0, GitConfig)
    /\ exists(src, GitConfig)
    /\ obs.seen # {}

\* the last command changed the source tree: an add that stored the file, a
\* confirmed rm, or a finished sync with a repo-bound update or a removal
changedSource ==
    /\ pc = "idle"
    /\ obs.out \in {"added", "removed", "synced"}
    /\ \E f \in SPaths : <<"src", f>> \in obs.writes

\* C11: after an add, a remove, or a sync that changed the source tree, the
\* git stage/commit/push sequence is started if and only if autoPush is true
\* and the source directory is a git repository; an add, rm or sync that did
\* not change the source tree starts no git command.
C11_AutoPushIff ==
    obs.cmd \in {"add", "rm", "sync"} =>
        /\ changedSource => (obs.git \in GitStarted <=> (cfg.autoPush /\ srcGitDir))
        /\ ~changedSource => (obs.git = "none" /\ obs.exits = <<>>)

C11_Witness ==
    /\ obs.cmd = "sync"
    /\ changedSource
    /\ cfg.autoPush
    /\ srcGitDir
    /\ obs.git = "success_pushed"
    /\ obs.exits = <<0, 0>>

\* C12: when git commit or git push exits non-zero in the auto-push step,
\* the helper prints a warning and not the success message, the command
\* completes, and the change already made to the source tree stays.
C12_GitFailureWarned ==
    (obs.exits # <<>> /\ (obs.exits[1] # 0 \/ obs.exits[2] # 0)) =>
        /\ obs.git \in {"warn_push", "warn_failed"}
        /\ pc = "idle"
        /\ \A f \in SPaths :
              <<"src", f>> \in obs.writes =>
                  IF obs.cmd = "add" THEN src[f].c = tgt[obs.last[1]].c
                  ELSE src[f] # src0[f]

\* C13: in one apply run each target file is written at most once; and when
\* a copy fails partway, every file applied before it holds the source
\* file's content and mode, and the target of the failing file and of every
\* file after it is as it was when the run started.
C13_ApplyAtMostOnce ==
    obs.cmd = "apply" =>
        /\ obs.rewritten = {}
        /\ obs.failed # {} =>
              /\ \A f \in obs.copied :
                    tgt[toTargetName(f)] = [c |-> src[f].c, m |-> getFileMode(f)]
              /\ \A f \in obs.failed \cup obs.pending :
                    tgt[toTargetName(f)] = tgt0[toTargetName(f)]

\* C14: when reading or copying one file fails inside the loop of apply or
\* sync, the error stays inside the command (it is reported for that file)
\* and the command does not end with selected or drifted files unprocessed.
C14_LoopContinues ==
    (obs.cmd \in {"apply", "sync"} /\ obs.failed # {}) =>
        /\ obs.escaped = "none"
        /\ pc = "idle" => obs.pending = {}

\* C15: a prompt of add, apply, sync, diff or rm that the user aborts ends
\* the process with exit code 0, and the abort is converted at the prompt's
\* call site: no error leaves the command unhandled.
C15_CancelExitsClean ==
    (obs.cmd \in {"add", "apply", "sync", "diff", "rm"} /\ obs.out = "cancelled_prompt") =>
        /\ obs.exit = 0
        /\ obs.escaped = "none"

\* C16: when the release command is interrupted, by SIGINT or SIGTERM or by
\* an aborted prompt, after it wrote the bumped version to the version file
\* and before the release completed, the process exits with the version
\* file holding the original version.
C16_InterruptReverts ==
    (rel.pc = "exited" /\ rel.interrupted # "none" /\ rel.wrote) =>
        rel.file = rel.file0


\* the default merge the configuration format promises: a key the file
\* lacks, at the top level or inside a section, takes its default
filled(json) ==
    [k \in DOMAIN DEFAULT_CONFIG \cup DOMAIN json |->
        IF k \notin DOMAIN json THEN DEFAULT_CONFIG[k]
        ELSE IF k \in DOMAIN DEFAULT_CONFIG THEN spread(DEFAULT_CONFIG[k], json[k])
        ELSE json[k]]

\* the dots section of the file the startup drift check found
seenDots ==
    IF boot.seen.kind = "json" THEN filled(boot.seen.json).dots ELSE DEFAULT_CONFIG.dots

\* the startup drift check is due
due ==
    /\ seenDots.checkInterval # 0
    /\ srcDirExists
    /\ \/ "lastChecked" \notin DOMAIN seenDots
       \/ now - seenDots.lastChecked >= seenDots.checkInterval

driftScanned == boot.scan \in {"warned", "quiet", "failed"}

C18_LastCheckedPersisted ==
    boot.stage \in {"dots", "exit"} /\ due =>
        /\ boot.file.kind = "json"
        /\ "dots" \in DOMAIN boot.file.json
        /\ "lastChecked" \in DOMAIN boot.file.json.dots
        /\ boot.file.json.dots.lastChecked = now
        /\ boot.code = 0

\* C19: a configuration file that cannot be parsed is still the same file
\* after every step of the invocation (update check, drift check, primary
\* command).
C19_CorruptKept == boot.file0.kind = "corrupt" => boot.file = boot.file0

\* C20: the loaded configuration is the file's object with every lacking
\* key, top-level or nested, at its default and every present key at the
\* file's value; so is the dots section the primary command reads.
C20_NestedDefaults ==
    /\ boot.stage # "start" /\ boot.file0.kind = "json"
         => boot.loaded = filled(boot.file0.json)
    /\ boot.stage = "exit" /\ boot.file.kind = "json"
         => boot.dotsConfig = filled(boot.file.json).dots


\* C21: `dots add <path>` on a path whose resolved location is not inside
\* the home directory ends with an error, stores no file in the source tree
\* and starts no git command.
C21_OutsideHomeRejected ==
    add.stage # "start" /\ ~inside(HOME, add.absoluteTarget) =>
        /\ add.out \in {"error_outside_home", "error_no_path"}
        /\ ~inside(SourceDir, add.sourcePath)
        /\ add.git \notin GitStarted


\* a path add stores under its own name: no segment starts with dot_,
\* private_ or executable_
plainSegments(path) ==
    \A i \in 1..Len(path) :
        /\ ~startsWith(path[i], "dot_")
        /\ ~startsWith(path[i], "private_")
        /\ ~startsWith(path[i], "executable_")

\* C29: for a file at P inside the home directory, added with private and
\* executable both answered no and no segment starting with dot_, private_
\* or executable_, the target path status computes for the stored file is P
\* under every configured targetDir, and the file is reported in sync.
C29_AddAgreesOnTarget ==
    /\ add.stage = "status"
    /\ inside(HOME, add.absoluteTarget)
    /\ ~add.isPrivate /\ ~add.isExecutable
    /\ plainSegments(add.relativeTarget)
    => /\ add.statusTarget = normalize(add.absoluteTarget)
       /\ add.bucket = "synced"


\* C22: status, diff and list leave every file of the source tree and of
\* the target tree as it was, whatever the trees hold and whatever is
\* answered in diff's menu; status and list show no prompt.
C22_ReadOnly ==
    obs.cmd \in {"status", "diff", "list"} =>
        /\ src = src0
        /\ tgt = tgt0
        /\ obs.writes = {}
        /\ obs.cmd \in {"status", "list"} => obs.prompts = {} /\ obs.menus = {}

\* C22 (witness): a status that found a missing and a modified file
C22_Witness ==
    /\ obs.cmd = "status"
    /\ obs.missing # {}
    /\ obs.modified # {}
    /\ tgt = tgt0


\* a pattern matches a path: a *suffix pattern the end of the file name, a
\* prefix* pattern its start, an exact pattern the file name or any segment
\* of the path, the first included
patternApplies(path, pattern) ==
    IF startsWith(pattern, "*") THEN endsWith(basename(path), Tail(pattern))
    ELSE IF endsWith(pattern, <<"*">>) THEN IsPrefix(Front(pattern), basename(path))
    ELSE \E i \in 1..Len(path) : path[i] = pattern

\* C23: shouldIgnore(relPath, patterns) is true exactly when some pattern
\* matches (suffix, prefix, or exact as file name or as any path segment,
\* the first segment included); with the default patterns .DS_Store and
\* script.swp are ignored and notes.txt is not.
C23_IgnoreExactly ==
    ign.stage = "result" =>
        (ign.ignored <=>
            \E k \in 1..Len(ign.patterns) : patternApplies(ign.path, ign.patterns[k]))


\* C24: with the source directory absent, apply, sync, status, diff and
\* list print an error and return at once: no prompt, no file of either
\* tree touched, no git command.
C24_NoSourceDirAborts ==
    obs.cmd \in {"apply", "sync", "status", "diff", "list"} /\ ~srcDirExists =>
        /\ obs.out = "error"
        /\ pc = "idle"
        /\ obs.prompts = {} /\ obs.menus = {}
        /\ obs.writes = {} /\ src = src0 /\ tgt = tgt0
        /\ ~obs.gitHelper /\ obs.git = "none"

\* C24 (witness): apply was run without a source directory, on a home that
\* has files
C24_Witness ==
    /\ obs.cmd = "apply"
    /\ ~srcDirExists
    /\ obs.out = "error"
    /\ \E t \in TPaths : exists(tgt, t)


\* the loop of apply stands at the resolution menu of a modified file
atApplyMenu ==
    /\ pc = "apply_loop"
    /\ run.i <= Len(run.files)
    /\ run.files[run.i].targetName \in run.sel
    /\ ~run.files[run.i].isNew

\* the loop of sync stands at the resolution menu of a modified file
atSyncMenu ==
    /\ pc = "sync_loop"
    /\ run.i <= Len(run.files)
    /\ scanFilter(run.files[run.i])
    /\ exists(tgt, toTargetName(run.files[run.i]))
    /\ filesAreDifferent(run.files[run.i], toTargetName(run.files[run.i]))

menuFile == IF pc = "apply_loop" THEN run.files[run.i].sourceFile ELSE run.files[run.i]

\* C25: at a resolution menu of apply or sync, "view inline diff" and "open
\* in diff tool" change no file and leave the loop at the same menu; every
\* other answer leaves the menu; skip changes no file; apply and repo->home
\* write the source content to the target with the mode of the source path;
\* home->repo writes the target content to the source file.
C25_MenuStateMachine ==
    [][ (atApplyMenu \/ atSyncMenu) /\ obs'.escaped = "none" =>
          LET f == menuFile
              t == toTargetName(menuFile)
              a == obs'.answer
          IN  /\ a \in {"inline", "difftool", "apply", "to-repo", "to-home", "skip"}
              /\ a \in {"inline", "difftool"} =>
                    src' = src /\ tgt' = tgt /\ pc' = pc /\ run' = run
              /\ a \in {"apply", "to-repo", "to-home", "skip"} =>
                    run'.i = run.i + 1
              /\ a = "skip" => src' = src /\ tgt' = tgt
              /\ a \in {"apply", "to-home"} =>
                    /\ src' = src
                    /\ tgt' = [tgt EXCEPT ![t] = [c |-> src[f].c, m |-> getFileMode(f)]]
              /\ a = "to-repo" =>
                    /\ tgt' = tgt
                    /\ src' = [src EXCEPT ![f].c = tgt[t].c]
      ]_vars

\* C25 (witness): repo -> home was chosen in a menu of sync and the target
\* took the content and a mode it did not have
C25_Witness ==
    /\ obs.cmd = "sync"
    /\ obs.answer = "to-home"
    /\ \E f \in obs.copied :
         /\ tgt[toTargetName(f)] = [c |-> src[f].c, m |-> getFileMode(f)]
         /\ tgt0[toTargetName(f)].m # getFileMode(f)
         /\ tgt0[toTargetName(f)].c # src[f].c


C27_AbortReverts ==
    /\ rel.pc = "exited"
    /\ rel.wrote
    /\ rel.interrupted = "none"
    /\ rel.how \in {"hook_failed", "not_staged", "no_changes", "declined", "git_failed"}
    => rel.file = rel.file0


\* C28: when apply finishes after at least one file was selected, the
\* applied count plus the skipped count it reports is the number of drifted
\* files its scan found.
C28_CountConservation ==
    obs.cmd = "apply" /\ obs.out = "applied" =>
        obs.counts[1] + obs.counts[2] = obs.counts[3]


\* the update check of this start wrote its lastChecked
updateChecked == shouldCheckForUpdate(boot.loaded, now)

\* both timestamps of a configuration are the ones of this start
bothStamped(config) ==
    /\ "lastChecked" \in DOMAIN config.updates
    /\ config.updates.lastChecked = now
    /\ "lastChecked" \in DOMAIN config.dots
    /\ config.dots.lastChecked = now

\* C30: when the update check and the drift check both run in one start,
\* the configuration file afterwards holds the new updates.lastChecked and
\* the new dots.lastChecked, and so does the configuration the primary
\* command loads.
C30_NoLostUpdate ==
    boot.stage \in {"dots", "exit"} /\ updateChecked /\ driftScanned =>
        /\ boot.file.kind = "json"
        /\ bothStamped(boot.file.json)
        /\ boot.stage = "exit" => bothStamped(loadConfig(boot.file).config)

\* C30 (witness): both checks ran on a file that held older timestamps, and
\* the primary command has loaded the configuration
C30_Witness ==
    /\ boot.stage = "exit"
    /\ updateChecked
    /\ driftScanned
    /\ boot.file0.kind = "json"
    /\ "updates" \in DOMAIN boot.file0.json
    /\ "dots" \in DOMAIN boot.file0.json
    /\ "lastChecked" \in DOMAIN boot.file0.json.updates
    /\ "lastChecked" \in DOMAIN boot.file0.json.dots
    /\ boot.file0.json.updates.lastChecked < now
    /\ boot.file0.json.dots.lastChecked < now
    /\ bothStamped(boot.file.json)

====
